---- MODULE Spec2Model ----
(***************************************************************************)
(* Model of scrap.py: the detail-page extraction (fetch_job_details), the  *)
(* listing-page parser (fetch_jobs_from_page) and the pagination driver    *)
(* (scrape_all_jobs).                                                      *)
(*                                                                         *)
(* A Python str is a sequence of one-character strings, so that substring  *)
(* tests, strip, split, join, slicing and rfind are computed, not assumed. *)
(***************************************************************************)
EXTENDS Integers, Sequences, FiniteSets, TLC

(***************************************************************************)
(* Python str primitives used by scrap.py                                  *)
(***************************************************************************)

\* the characters str.strip() and str.split() treat as whitespace
WS == {" ", "\t", "\n"}

UpperAlpha == <<"A","B","C","D","E","F","G","H","I","J","K","L","M",
                "N","O","P","Q","R","S","T","U","V","W","X","Y","Z">>

LowerAlpha == <<"a","b","c","d","e","f","g","h","i","j","k","l","m",
                "n","o","p","q","r","s","t","u","v","w","x","y","z">>

\* the two bullet characters of lines 59 and 77
BULLET == "(U+2022)"

MIDDOT == "(U+00B7)"

LowerChar(c) ==
    IF \E i \in 1..26 : UpperAlpha[i] = c
    THEN LowerAlpha[CHOOSE i \in 1..26 : UpperAlpha[i] = c]
    ELSE c

\* str.lower()
Lower(s) == [i \in 1..Len(s) |-> LowerChar(s[i])]

\* s[:n]
Prefix(s, n) == IF Len(s) <= n THEN s ELSE SubSeq(s, 1, n)

\* str.strip()
Strip(s) ==
    LET keep == {i \in 1..Len(s) : s[i] \notin WS}
    IN  IF keep = {} THEN <<>>
        ELSE LET lo == CHOOSE i \in keep : \A j \in keep : i <= j
                 hi == CHOOSE i \in keep : \A j \in keep : j <= i
             IN  SubSeq(s, lo, hi)

\* sub in s
Contains(sub, s) ==
    \E i \in 0..(Len(s) - Len(sub)) :
        \A j \in 1..Len(sub) : s[i + j] = sub[j]

\* any(key in label for key in keys)
AnyKeyIn(keys, label) == \E k \in keys : Contains(k, label)

\* s.startswith(p)
StartsWith(s, p) == Len(p) <= Len(s) /\ SubSeq(s, 1, Len(p)) = p

\* s.replace(c, d) for one-character c and d
Replace(s, c, d) == [i \in 1..Len(s) |-> IF s[i] = c THEN d ELSE s[i]]

\* s.rfind(c): 0-based index of the last c in s, -1 when there is none
RFind(s, c) ==
    LET at == {i \in 1..Len(s) : s[i] = c}
    IN  IF at = {} THEN -1
        ELSE (CHOOSE i \in at : \A j \in at : j <= i) - 1

\* s.split(c): the pieces between occurrences of c, empty pieces kept
SplitOn(s, c) ==
    LET cuts == {i \in 1..Len(s) : s[i] = c}
        n    == Cardinality(cuts)
        \* position of the k-th separator; 0 before the first, Len+1 after the last
        cut(k) == IF k = 0 THEN 0
                  ELSE IF k = n + 1 THEN Len(s) + 1
                  ELSE CHOOSE i \in cuts : Cardinality({j \in cuts : j < i}) = k - 1
    IN  [k \in 1..(n + 1) |-> SubSeq(s, cut(k - 1) + 1, cut(k) - 1)]

\* s.split(): the maximal runs of non-whitespace characters
SplitWS(s) ==
    LET starts == {i \in 1..Len(s) : s[i] \notin WS /\ (i = 1 \/ s[i - 1] \in WS)}
        n      == Cardinality(starts)
        start(k) == CHOOSE i \in starts : Cardinality({j \in starts : j < i}) = k - 1
        stop(i)  == CHOOSE e \in i..Len(s) :
                        /\ \A j \in i..e : s[j] \notin WS
                        /\ (e = Len(s) \/ s[e + 1] \in WS)
    IN  [k \in 1..n |-> SubSeq(s, start(k), stop(start(k)))]

RECURSIVE Join(_, _)
\* sep.join(items)
Join(items, sep) ==
    IF Len(items) = 0 THEN <<>>
    ELSE IF Len(items) = 1 THEN items[1]
    ELSE items[1] \o sep \o Join(Tail(items), sep)

RECURSIVE Concat(_)
\* ''.join(items)
Concat(items) ==
    IF Len(items) = 0 THEN <<>> ELSE items[1] \o Concat(Tail(items))

NonEmpty(s) == s /= <<>>

(***************************************************************************)
(* The parsed document (BeautifulSoup tree).  A node is a tag with a name, *)
(* a set of classes, an href attribute and children, or a text node.  A    *)
(* tag of the tree is identified by its path from the root (the sequence   *)
(* of child indices); the root (the soup object) is the empty path.        *)
(***************************************************************************)

NoAttr == <<"(no attribute)">>

Txt(s) == [name |-> "#text", classes |-> {}, href |-> NoAttr, text |-> s, kids |-> <<>>]

El(n, cs, ks) == [name |-> n, classes |-> cs, href |-> NoAttr, text |-> <<>>, kids |-> ks]

Anchor(h, ks) == [name |-> "a", classes |-> {}, href |-> h, text |-> <<>>, kids |-> ks]

Soup(ks) == El("[document]", {}, ks)

\* None, as returned by find() and find_next_sibling()
NoTag == <<0>>

RECURSIVE NodeAt(_, _)
NodeAt(root, path) ==
    IF path = <<>> THEN root ELSE NodeAt(root.kids[Head(path)], Tail(path))

RECURSIVE PathsUnder(_, _)
\* the descendants of a node in document order, as paths, given the node's path
PathsUnder(node, path) ==
    LET RECURSIVE From(_)
        From(i) ==
            IF i > Len(node.kids) THEN <<>>
            ELSE <<path \o <<i>>>> \o PathsUnder(node.kids[i], path \o <<i>>) \o From(i + 1)
    IN  From(1)

\* .descendants of the tag at path
Descendants(soup, path) == PathsUnder(NodeAt(soup, path), path)

IsTag(soup, p, names) == NodeAt(soup, p).name \in names

\* tag.find_all(names)
FindAll(soup, path, names) ==
    SelectSeq(Descendants(soup, path), LAMBDA p : IsTag(soup, p, names))

First(paths) == IF Len(paths) = 0 THEN NoTag ELSE paths[1]

\* tag.find(names)
Find(soup, path, names) == First(FindAll(soup, path, names))

\* tag.find('div', class_=c)
FindDivClass(soup, path, c) ==
    First(SelectSeq(Descendants(soup, path),
                    LAMBDA p : IsTag(soup, p, {"div"}) /\ c \in NodeAt(soup, p).classes))

\* x or y, for the results of find()
OrElse(x, y) == IF x /= NoTag THEN x ELSE y

\* the text nodes below the tag at path, in document order
Strings(soup, path) ==
    LET ps == SelectSeq(Descendants(soup, path), LAMBDA p : IsTag(soup, p, {"#text"}))
    IN  [i \in 1..Len(ps) |-> NodeAt(soup, ps[i]).text]

\* tag.get_text()
GetText(soup, path) == Concat(Strings(soup, path))

StrippedStrings(soup, path) ==
    LET ss == Strings(soup, path)
        st == [i \in 1..Len(ss) |-> Strip(ss[i])]
    IN  SelectSeq(st, NonEmpty)

\* tag.get_text(strip=True)
GetTextStrip(soup, path) == Concat(StrippedStrings(soup, path))

\* tag.get_text(separator=' ', strip=True)
GetTextSepStrip(soup, path) == Join(StrippedStrings(soup, path), <<" ">>)

\* tag.find_next_sibling(name): the first later sibling with that name
FindNextSibling(soup, path, nm) ==
    LET n      == Len(path)
        parent == SubSeq(path, 1, n - 1)
        sibs   == NodeAt(soup, parent).kids
        later  == {i \in (path[n] + 1)..Len(sibs) : sibs[i].name = nm}
    IN  IF later = {} THEN NoTag
        ELSE parent \o <<CHOOSE i \in later : \A j \in later : i <= j>>

(***************************************************************************)
(* fetch_job_details: the data of the function, stage by stage             *)
(***************************************************************************)

NotAvailable == <<"N","o","t"," ","A","v","a","i","l","a","b","l","e">>

Fields == {"JobTitle", "Location", "ExperienceRequired", "SkillsRequired",
           "Salary", "JobDescriptionSummary"}

\* data = {...}
InitialData ==
    [f \in Fields |-> IF f \in {"Location", "Salary"} THEN <<>> ELSE NotAvailable]

\* d[k] = v on a dict: the key is added when it is not there yet
SetItem(d, k, v) == [x \in (DOMAIN d) \cup {k} |-> IF x = k THEN v ELSE d[x]]

\* d.get(k, default)
GetItem(d, k, default) == IF k \in DOMAIN d THEN d[k] ELSE default

LocationKeys == { <<"l","o","c","a","t","i","o","n">>, <<"p","l","a","c","e">>,
                  <<"c","i","t","y">> }

ExperienceKeys == { <<"e","x","p","e","r","i","e","n","c","e">>, <<"e","x","p">>,
                    <<"y","e","a","r","s">> }

SkillsKeys == { <<"s","k","i","l","l","s">>, <<"s","k","i","l","l">>,
                <<"r","e","q","u","i","r","e","m","e","n","t","s">>,
                <<"q","u","a","l","i","f","i","c","a","t","i","o","n","s">> }

SalaryKeys == { <<"s","a","l","a","r","y">>, <<"c","t","c">>,
                <<"p","a","c","k","a","g","e">>,
                <<"c","o","m","p","e","n","s","a","t","i","o","n">> }

SkillsSectionKeys == { <<"r","e","q","u","i","r","e","d"," ","s","k","i","l","l","s">>,
                       <<"s","k","i","l","l"," ","r","e","q","u","i","r","e","m","e","n","t","s">> }

JobDescriptionKey == <<"j","o","b"," ","d","e","s","c","r","i","p","t","i","o","n">>

DescriptionLikeKeys == { <<"r","e","s","p","o","n","s","i","b","i","l","i","t","i","e","s">>,
                         <<"r","e","q","u","i","r","e","m","e","n","t","s">>,
                         <<"a","b","o","u","t"," ","t","h","e"," ","r","o","l","e">> }

ContainerClasses == <<"job-detail-sec", "job-info-sec", "content-area">>

\* soup.find('div', class_='job-detail-sec') or ... or soup.find('div', class_='content-area')
FindDetailsContainer(soup) ==
    OrElse(FindDivClass(soup, <<>>, ContainerClasses[1]),
           OrElse(FindDivClass(soup, <<>>, ContainerClasses[2]),
                  FindDivClass(soup, <<>>, ContainerClasses[3])))

\* title_tag = details_container.find(['h1','h2']) or soup.find(['h1','h2']); data['JobTitle'] = ...
TitleStage(soup, dc, data) ==
    LET title_tag == OrElse(Find(soup, dc, {"h1", "h2"}), Find(soup, <<>>, {"h1", "h2"}))
    IN  IF title_tag /= NoTag
        THEN SetItem(data, "JobTitle", GetTextStrip(soup, title_tag))
        ELSE data

\* value.replace(bullets, ',').split(','), items stripped, empty items dropped, ', '.join
NormalizeSkills(value) ==
    LET parts    == SplitOn(Replace(Replace(value, BULLET, ","), MIDDOT, ","), ",")
        stripped == [i \in 1..Len(parts) |-> Strip(parts[i])]
    IN  Join(SelectSeq(stripped, NonEmpty), <<",", " ">>)

\* the if/elif chain on a dt label and its dd value
DlAssign(data, label, value) ==
    IF AnyKeyIn(LocationKeys, label) THEN SetItem(data, "Location", value)
    ELSE IF AnyKeyIn(ExperienceKeys, label) THEN SetItem(data, "ExperienceRequired", value)
    ELSE IF AnyKeyIn(SkillsKeys, label) THEN SetItem(data, "SkillsRequired", NormalizeSkills(value))
    ELSE IF AnyKeyIn(SalaryKeys, label) THEN SetItem(data, "Salary", value)
    ELSE data

\* the body of `for dt in dl.find_all('dt')`
DtStep(soup, data, dt) ==
    LET label == Lower(GetTextStrip(soup, dt))
        dd    == FindNextSibling(soup, dt, "dd")
    IN  IF dd /= NoTag THEN DlAssign(data, label, GetTextStrip(soup, dd)) ELSE data

\* the tags visited by `for x in container.find_all(outer): for y in x.find_all(inner)`
NestedFindAll(soup, c, outer, inner) ==
    LET xs == FindAll(soup, c, outer)
    IN  Concat([i \in 1..Len(xs) |-> FindAll(soup, xs[i], inner)])

RECURSIVE FoldDts(_, _, _)
FoldDts(soup, data, dts) ==
    IF Len(dts) = 0 THEN data
    ELSE FoldDts(soup, DtStep(soup, data, Head(dts)), Tail(dts))

\* for dl in container.find_all('dl'): for dt in dl.find_all('dt'): ...
DlStage(soup, c, data) == FoldDts(soup, data, NestedFindAll(soup, c, {"dl"}, {"dt"}))

\* the if/elif chain on the first two cells of a row
RowAssign(data, label, value) ==
    IF AnyKeyIn(LocationKeys, label) THEN SetItem(data, "Location", value)
    ELSE IF AnyKeyIn(ExperienceKeys, label) THEN SetItem(data, "ExperienceRequired", value)
    ELSE IF AnyKeyIn(SkillsKeys, label) THEN SetItem(data, "SkillsRequired", NormalizeSkills(value))
    ELSE IF AnyKeyIn(SalaryKeys, label) THEN SetItem(data, "Salary", value)
    ELSE data

\* the body of `for row in table.find_all('tr')`
RowStep(soup, data, row) ==
    LET cells == FindAll(soup, row, {"th", "td"})
    IN  IF Len(cells) >= 2
        THEN RowAssign(data, Lower(GetTextStrip(soup, cells[1])), GetTextStrip(soup, cells[2]))
        ELSE data

RECURSIVE FoldRows(_, _, _)
FoldRows(soup, data, rows) ==
    IF Len(rows) = 0 THEN data
    ELSE FoldRows(soup, RowStep(soup, data, Head(rows)), Tail(rows))

\* for table in container.find_all('table'): for row in table.find_all('tr'): ...
TableStage(soup, c, data) == FoldRows(soup, data, NestedFindAll(soup, c, {"table"}, {"tr"}))

\* container.find(lambda tag: tag.name in ['div','section'] and any(key in text.lower() ...))
FindSkillsSection(soup, c) ==
    First(SelectSeq(Descendants(soup, c),
            LAMBDA p : /\ IsTag(soup, p, {"div", "section"})
                       /\ AnyKeyIn(SkillsSectionKeys, Lower(GetText(soup, p)))))

\* the skills section stored under a key that is not a field
SkillsStageWrongKey(soup, c, data) ==
    LET skills_section == FindSkillsSection(soup, c)
    IN  IF skills_section = NoTag THEN data
        ELSE LET skills_list == FindAll(soup, skills_section, {"li", "p"})
                 skills == [i \in 1..Len(skills_list) |-> GetTextStrip(soup, skills_list[i])]
             IN  IF Len(skills_list) = 0 THEN data
                 ELSE SetItem(data, "Skills",
                              Join(SelectSeq(skills, NonEmpty), <<",", " ">>))

\* the dedicated skills section: the li and p of the section, ', '.join(filter(None, ...))
SkillsStage(soup, c, data) ==
    LET skills_section == FindSkillsSection(soup, c)
    IN  IF skills_section = NoTag THEN data
        ELSE LET skills_list == FindAll(soup, skills_section, {"li", "p"})
                 skills == [i \in 1..Len(skills_list) |-> GetTextStrip(soup, skills_list[i])]
             IN  IF Len(skills_list) = 0 THEN data
                 ELSE SetItem(data, "SkillsRequired",
                              Join(SelectSeq(skills, NonEmpty), <<",", " ">>))

\* the cap of `len(description) > 300` and `description[:300]`
SummaryCap == 300

\* the threshold of `len(tag.get_text()) > 100`
DescriptionLikeMinLen == 100

Ellipsis == <<".", ".", ".">>

\* the four lookups of the description section in one container, joined by `or`
FindDescIn(soup, c) ==
    LET byText == First(SelectSeq(Descendants(soup, c),
                    LAMBDA p : /\ IsTag(soup, p, {"div", "section"})
                               /\ GetText(soup, p) /= <<>>
                               /\ Contains(JobDescriptionKey, Lower(GetText(soup, p)))))
        byLike == First(SelectSeq(Descendants(soup, c),
                    LAMBDA p : /\ IsTag(soup, p, {"div", "section"})
                               /\ Len(GetText(soup, p)) > DescriptionLikeMinLen
                               /\ AnyKeyIn(DescriptionLikeKeys, Lower(GetText(soup, p)))))
    IN  OrElse(FindDivClass(soup, c, "job-description"),
               OrElse(FindDivClass(soup, c, "description"),
                      OrElse(byText, byLike)))

\* for container in [details_container, soup]: desc_section = ...; if desc_section: break
FindDescSection(soup, dc) == OrElse(FindDescIn(soup, dc), FindDescIn(soup, <<>>))

\* the summary cut before the breakpoint instead of after it
SummarizeCutBefore(description) ==
    IF Len(description) > SummaryCap
    THEN LET dot        == RFind(Prefix(description, SummaryCap), ".")
             breakpoint == IF dot = -1 THEN RFind(Prefix(description, SummaryCap), " ")
                           ELSE dot
         IN  IF breakpoint /= -1
             THEN Prefix(description, breakpoint) \o Ellipsis
             ELSE Prefix(description, SummaryCap) \o Ellipsis
    ELSE description

\* the summary of a non-empty, whitespace-normalized description
Summarize(description) ==
    IF Len(description) > SummaryCap
    THEN LET dot        == RFind(Prefix(description, SummaryCap), ".")
             breakpoint == IF dot = -1 THEN RFind(Prefix(description, SummaryCap), " ")
                           ELSE dot
         IN  IF breakpoint /= -1
             THEN Prefix(description, breakpoint + 1) \o Ellipsis
             ELSE Prefix(description, SummaryCap) \o Ellipsis
    ELSE description

\* ' '.join(desc_section.get_text(separator=' ', strip=True).split())
DescriptionOf(soup, desc_section) ==
    Join(SplitWS(GetTextSepStrip(soup, desc_section)), <<" ">>)

\* if desc_section: ... data['JobDescriptionSummary'] = ...
DescStage(soup, dc, data) ==
    LET desc_section == FindDescSection(soup, dc)
    IN  IF desc_section = NoTag THEN data
        ELSE LET description == DescriptionOf(soup, desc_section)
             IN  IF description /= <<>>
                 THEN SetItem(data, "JobDescriptionSummary", Summarize(description))
                 ELSE data

(***************************************************************************)
(* fetch_jobs_from_page and scrape_all_jobs: the data of the functions     *)
(***************************************************************************)

BASE_URL == <<"h","t","t","p","s",":","/","/","i","n","f","o","p","a","r","k",".","i","n",
              "/","c","o","m","p","a","n","i","e","s","/","j","o","b","-","s","e","a","r","c","h">>

\* the origin prefixed to a relative details link
Origin == <<"h","t","t","p","s",":","/","/","i","n","f","o","p","a","r","k",".","i","n">>

\* the default of scrape_all_jobs(base_url, max_pages=3), also passed by __main__
max_pages == 3

\* the minimum number of cells of a listing row
MinCols == 5

Digits == <<"0","1","2","3","4","5","6","7","8","9">>

RECURSIVE IntToStr(_)
\* str(n) for n >= 0
IntToStr(n) ==
    IF n < 10 THEN <<Digits[n + 1]>> ELSE IntToStr(n \div 10) \o <<Digits[(n % 10) + 1]>>

\* url = base_url if page == 1 else f"{base_url}?page={page}"
PageUrl(base_url, p) ==
    IF p = 1 THEN base_url ELSE base_url \o <<"?","p","a","g","e","=">> \o IntToStr(p)

\* soup.find('table', class_='table')
FindJobTable(soup) ==
    First(SelectSeq(Descendants(soup, <<>>),
            LAMBDA p : IsTag(soup, p, {"table"}) /\ "table" \in NodeAt(soup, p).classes))

\* cols[4].find('a', href=True)
FindLink(soup, cell) ==
    First(SelectSeq(Descendants(soup, cell),
            LAMBDA p : IsTag(soup, p, {"a"}) /\ NodeAt(soup, p).href /= NoAttr))

\* details_url = details_link['href'], made absolute when it starts with '/'
ResolveUrl(href) == IF StartsWith(href, <<"/">>) THEN Origin \o href ELSE href

\* job_data = {...}: the record built from the row's cells and the details
JobData(soup, cols, url, job_details) ==
    [PostingDate           |-> GetTextStrip(soup, cols[1]),
     JobTitle              |-> GetTextStrip(soup, cols[2]),
     CompanyName           |-> GetTextStrip(soup, cols[3]),
     LastDate              |-> GetTextStrip(soup, cols[4]),
     Location              |-> GetItem(job_details, "Location", NotAvailable),
     ExperienceRequired    |-> GetItem(job_details, "ExperienceRequired", NotAvailable),
     SkillsRequired        |-> GetItem(job_details, "SkillsRequired", NotAvailable),
     Salary                |-> GetItem(job_details, "Salary", NotAvailable),
     JobURL                |-> url,
     JobDescriptionSummary |-> GetItem(job_details, "JobDescriptionSummary", NotAvailable)]

(***************************************************************************)
(* The documents the server can answer with                                *)
(***************************************************************************)

\* most page elements around and inside the details container of a detail page
MaxElems == 2

\* most rows of a listing page
MaxRows == 2

Leaf(n, s) == El(n, {}, IF s = <<>> THEN <<>> ELSE <<Txt(s)>>)

Row2(n, label, value) == El("tr", {}, <<Leaf(n, label), Leaf("td", value)>>)

TableLocation ==
    El("table", {}, <<Row2("td", <<"L","o","c","a","t","i","o","n">>, <<"K","o","c","h","i">>)>>)

TableLocationBlank ==
    El("table", {}, <<Row2("td", <<"L","o","c","a","t","i","o","n">>, <<" ">>)>>)

\* a one-cell row, then a row whose label cell is a th
TableCity ==
    El("table", {}, <<El("tr", {}, <<Leaf("td", <<"S","a","l","a","r","y">>)>>),
                      Row2("th", <<" ","C","i","t","y",":">>, <<"P","u","n","e","\n">>)>>)

TableSkills ==
    El("table", {},
       <<Row2("td", <<"S","k","i","l","l","s">>,
                    <<"P","y","t","h","o","n",BULLET," ","G","o",MIDDOT," ","S","Q","L">>),
         Row2("td", <<"C","T","C">>, <<"5"," ","L","P","A">>)>>)

DlExperience ==
    El("dl", {}, <<Leaf("dt", <<"E","x","p","e","r","i","e","n","c","e"," ","(","Y","r","s",")">>),
                   Leaf("dd", <<"2","-","4">>)>>)

\* a pair, then a dt that no dd follows
DlPlace ==
    El("dl", {}, <<Leaf("dt", <<"P","l","a","c","e">>), Leaf("dd", <<"G","o","a">>),
                   Leaf("dt", <<"S","a","l","a","r","y">>)>>)

\* a dt whose dd is empty, then a skills pair
DlExpEmpty ==
    El("dl", {}, <<Leaf("dt", <<"E","x","p">>), Leaf("dd", <<>>),
                   Leaf("dt", <<"S","k","i","l","l">>),
                   Leaf("dd", <<" ","G","o"," ",",",",","S","Q","L">>)>>)

SkillsSection ==
    El("div", {},
       <<Leaf("h3", <<"R","e","q","u","i","r","e","d"," ","S","k","i","l","l","s">>),
         El("ul", {}, <<Leaf("li", <<"P","y","t","h","o","n",BULLET," ","G","o">>),
                        Leaf("li", <<" ">>),
                        Leaf("li", <<"S","Q","L">>)>>)>>)

Heading == Leaf("h1", <<"L","e","a","d">>)

Heading2 == Leaf("h2", <<" ","Q","A">>)

DescDiv ==
    El("div", {"job-description"}, <<Txt(<<"B","u","i","l","d"," "," ","A","P","I","s",".">>)>>)

ElemPool == {TableLocation, TableLocationBlank, TableCity, TableSkills, DlExperience,
             DlPlace, DlExpEmpty, SkillsSection, Heading, Heading2, DescDiv}

SeqsUpTo(S, n) == UNION {[1..k -> S] : k \in 0..n}

\* a page without any of the three container classes
BareDocs(n) == {Soup(s) : s \in SeqsUpTo(ElemPool, n)}

\* a page with elements before, inside and after a div of class c
ContainerDocs(c, n) ==
    UNION { UNION { { Soup(SubSeq(s, 1, i) \o <<El("div", {c}, SubSeq(s, i + 1, j))>>
                           \o SubSeq(s, j + 1, Len(s))) : j \in i..Len(s) }
                    : i \in 0..Len(s) }
            : s \in SeqsUpTo(ElemPool, n) }

\* a text of n characters with a period at 0-based index dot and a space at
\* 0-based index sp (-1: none), all other characters letters
PlainText(n, dot, sp) ==
    [i \in 1..n |-> IF i - 1 = dot THEN "." ELSE IF i - 1 = sp THEN " " ELSE "a"]

\* the same text as it stands in the page: whitespace around it, the space doubled
RawText(n, dot, sp) ==
    LET t == PlainText(n, dot, sp)
    IN  IF sp < 0 \/ sp >= n THEN <<"\n">> \o t
        ELSE SubSeq(t, 1, sp + 1) \o <<"\n">> \o SubSeq(t, sp + 2, n) \o <<" ">>

DescLens == {300, 301, 450}

DotAt == {-1, 0, 210, 299, 300}

SpaceAt == {-1, 100, 250, 299}

LongDescDocs ==
    { Soup(<<El("div", {"job-detail-sec"},
                <<El("div", {"description"}, <<Txt(RawText(n, dot, sp))>>)>>)>>)
      : n \in DescLens, dot \in DotAt, sp \in SpaceAt \ {299} }
    \cup
    { Soup(<<El("div", {"job-detail-sec"},
                <<El("div", {"job-description"}, <<Txt(PlainText(n, dot, sp))>>)>>)>>)
      : n \in DescLens, dot \in DotAt, sp \in SpaceAt }

\* a content-area div before the job-detail-sec div; descriptions found by their text
SpecialDocs ==
    { Soup(<<El("div", {"content-area"}, <<Heading2>>),
             El("div", {"job-detail-sec"}, <<TableLocation>>)>>),
      Soup(<<El("div", {"job-info-sec"},
                <<El("section", {}, <<Txt(<<"J","o","b"," ","D","e","s","c","r","i","p","t","i","o","n",":">>),
                                      Leaf("p", <<"B","u","i","l","d"," ","A","P","I","s",".">>)>>)>>)>>),
      Soup(<<El("div", {"content-area"}, <<DlExperience>>),
             El("section", {}, <<Txt(<<"R","e","q","u","i","r","e","m","e","n","t","s",":"," ">>
                                     \o PlainText(120, 60, 30))>>)>>) }

DetailDocs ==
    BareDocs(MaxElems) \cup ContainerDocs("job-detail-sec", MaxElems)
    \cup ContainerDocs("job-info-sec", 1) \cup ContainerDocs("content-area", 1)
    \cup LongDescDocs \cup SpecialDocs

\* listing rows: too few cells; no link; a relative link; an absolute link
ListingRow(title, link) ==
    El("tr", {}, <<Leaf("td", <<"1">>), Leaf("td", title), Leaf("td", <<"A","c","m","e">>),
                   Leaf("td", <<"2">>), El("td", {}, <<link>>)>>)

ShortRow == El("tr", {}, <<Leaf("td", <<"1">>), Leaf("td", <<"D","e","v">>),
                           Leaf("td", <<"A","c","m","e">>), Leaf("td", <<"2">>)>>)

NoLinkRow == ListingRow(<<"D","e","v">>, El("a", {}, <<>>))

RelRow == ListingRow(<<"D","e","v">>, Anchor(<<"/","j","o","b","s","/","1">>, <<>>))

AbsRow == ListingRow(<<"Q","A">>,
            Anchor(<<"h","t","t","p","s",":","/","/","i","n","f","o","p","a","r","k",".","i","n",
                     "/","j","o","b","s","/","2">>, <<>>))

RowPool == {RelRow, AbsRow}

\* a listing page: a table of class table with a tbody of rows
ListingPage(rs) == Soup(<<El("table", {"table"}, <<El("tbody", {}, rs)>>)>>)

\* pages of linked rows; pages with rows that are passed over; a table that is
\* not of class table; a table without tbody
ListingDocs ==
    { ListingPage(rs) : rs \in SeqsUpTo(RowPool, MaxRows) }
    \cup { ListingPage(<<ShortRow, RelRow>>), ListingPage(<<NoLinkRow>>),
           Soup(<<El("table", {}, <<El("tbody", {}, <<RelRow>>)>>)>>),
           Soup(<<El("table", {"table"}, <<RelRow>>)>>) }

\* the detail page behind /jobs/1; the page behind /jobs/2 answers with an HTTP error
SiteJobPage == Soup(<<El("div", {"job-detail-sec"}, <<Heading, TableLocation>>)>>)

SiteJobUrl == Origin \o <<"/","j","o","b","s","/","1">>

\* a details URL handed to fetch_job_details when it is called on its own
SomeUrl == Origin \o <<"/","j","o","b","s","/","7">>

HttpError == [status |-> "error", doc |-> Soup(<<>>)]

Ok(doc) == [status |-> "ok", doc |-> doc]

\* what requests.get(details_url) followed by raise_for_status() can produce
DetailResponses(entry, url) ==
    IF entry = "fetch_job_details" THEN {HttpError} \cup {Ok(d) : d \in DetailDocs}
    ELSE IF url = SiteJobUrl THEN {Ok(SiteJobPage)}
    ELSE {HttpError}

\* what requests.get(url) of a listing page can produce
ListingResponses == {HttpError} \cup {Ok(d) : d \in ListingDocs}

(***************************************************************************)
(* The program as a state machine.  entry is the function that was called: *)
(* scrape_all_jobs (the run of __main__) or fetch_job_details on its own.  *)
(***************************************************************************)

VARIABLES
    entry,              \* the function called
    pc,                 \* the position in the code
    page,               \* scrape_all_jobs: the loop variable
    all_jobs,           \* scrape_all_jobs: the accumulated records
    url,                \* fetch_jobs_from_page: its argument
    listing,            \* fetch_jobs_from_page: the parsed listing page
    rows,               \* fetch_jobs_from_page: tbody.find_all('tr')
    rowIdx,             \* fetch_jobs_from_page: the index of the current row
    jobs,               \* fetch_jobs_from_page: the records of this page
    details_url,        \* fetch_job_details: its argument
    soup,               \* fetch_job_details: the parsed detail page
    details_container,  \* fetch_job_details: the container found
    cidx,               \* fetch_job_details: 1 or 2, the position in [details_container, soup]
    data,               \* fetch_job_details: the result under construction
    raised,             \* fetch_job_details: an exception reached the except clause
    inflight,           \* HTTP requests sent and not yet answered
    requested,          \* the listing URLs requested so far, in order
    pageResults,        \* what fetch_jobs_from_page returned, call by call
    detailFetches,      \* detail requests sent so far
    sleptSince          \* time.sleep(1) has run since the last detail request

vars == <<entry, pc, page, all_jobs, url, listing, rows, rowIdx, jobs, details_url, soup,
          details_container, cidx, data, raised, inflight, requested, pageResults,
          detailFetches, sleptSince>>

driverVars == <<page, all_jobs>>

pageVars == <<url, listing, rows, rowIdx, jobs>>

detailVars == <<details_url, soup, details_container, cidx, data, raised>>

netVars == <<inflight, requested, pageResults, detailFetches, sleptSince>>

EmptySoup == Soup(<<>>)

Init ==
    /\ entry \in {"scrape_all_jobs", "fetch_job_details"}
    /\ pc = IF entry = "scrape_all_jobs" THEN "loop" ELSE "d_start"
    /\ page = 1
    /\ all_jobs = <<>>
    /\ url = <<>>
    /\ listing = EmptySoup
    /\ rows = <<>>
    /\ rowIdx = 1
    /\ jobs = <<>>
    /\ details_url \in (IF entry = "fetch_job_details" THEN {<<>>, SomeUrl} ELSE {<<>>})
    /\ soup = EmptySoup
    /\ details_container = NoTag
    /\ cidx = 1
    /\ data = InitialData
    /\ raised = FALSE
    /\ inflight = 0
    /\ requested = <<>>
    /\ pageResults = <<>>
    /\ detailFetches = 0
    /\ sleptSince = FALSE

(***************************************************************************)
(* scrape_all_jobs                                                         *)
(***************************************************************************)

\* for page in range(1, max_pages + 1): url = ...; jobs = fetch_jobs_from_page(url)
NextPage ==
    /\ pc = "loop"
    /\ page <= max_pages
    /\ url' = PageUrl(BASE_URL, page)
    /\ jobs' = <<>>
    /\ pc' = "list_get"
    /\ UNCHANGED <<entry, driverVars, listing, rows, rowIdx, detailVars, netVars>>

\* the range is exhausted: return all_jobs
PagesExhausted ==
    /\ pc = "loop"
    /\ page > max_pages
    /\ pc' = "done"
    /\ UNCHANGED <<entry, driverVars, pageVars, detailVars, netVars>>

\* the loop without its break
BreakNever(js) == FALSE

\* if not jobs: break
BreakOnEmpty(js) == js = <<>>

\* back in scrape_all_jobs with the page's records: break, or extend and go on
PageReturned ==
    /\ pc = "page_done"
    /\ pageResults' = Append(pageResults, jobs)
    /\ IF BreakOnEmpty(jobs)
       THEN /\ pc' = "done"
            /\ UNCHANGED driverVars
       ELSE /\ all_jobs' = all_jobs \o jobs
            /\ page' = page + 1
            /\ pc' = "loop"
    /\ listing' = EmptySoup
    /\ rows' = <<>>
    /\ rowIdx' = 1
    /\ UNCHANGED <<entry, url, jobs, detailVars, inflight, requested, detailFetches, sleptSince>>

(***************************************************************************)
(* fetch_jobs_from_page                                                    *)
(***************************************************************************)

\* requests.get(url, ...) is sent
ListRequest ==
    /\ pc = "list_get"
    /\ inflight' = inflight + 1
    /\ requested' = Append(requested, url)
    /\ pc' = "list_wait"
    /\ UNCHANGED <<entry, driverVars, pageVars, detailVars, pageResults, detailFetches, sleptSince>>

\* the request fails (or raise_for_status raises): return jobs, which is empty
ListFailed ==
    /\ pc = "list_wait"
    /\ HttpError \in ListingResponses
    /\ inflight' = inflight - 1
    /\ pc' = "page_done"
    /\ UNCHANGED <<entry, driverVars, pageVars, detailVars, requested, pageResults,
                   detailFetches, sleptSince>>

\* the page arrives and is parsed
ListFetched ==
    /\ pc = "list_wait"
    /\ \E r \in ListingResponses :
          /\ r.status = "ok"
          /\ listing' = r.doc
    /\ inflight' = inflight - 1
    /\ pc' = "list_parse"
    /\ UNCHANGED <<entry, driverVars, url, rows, rowIdx, jobs, detailVars, requested,
                   pageResults, detailFetches, sleptSince>>

\* job_table = soup.find('table', class_='table'); tbody = job_table.find('tbody')
FindTbody(doc) ==
    LET job_table == FindJobTable(doc)
    IN  IF job_table = NoTag THEN NoTag ELSE Find(doc, job_table, {"tbody"})

\* no table or no table body: return jobs; else rows = tbody.find_all('tr')
ListParse ==
    /\ pc = "list_parse"
    /\ LET tbody == FindTbody(listing)
       IN  IF tbody = NoTag
           THEN /\ pc' = "page_done"
                /\ UNCHANGED <<rows, rowIdx>>
           ELSE /\ rows' = FindAll(listing, tbody, {"tr"})
                /\ rowIdx' = 1
                /\ pc' = "row"
    /\ UNCHANGED <<entry, driverVars, url, listing, jobs, detailVars, netVars>>

\* cols = row.find_all('td')
Cols(doc, row) == FindAll(doc, row, {"td"})

\* the details link of a row with enough cells, None otherwise
DetailsLink(doc, row) ==
    LET cols == Cols(doc, row)
    IN  IF Len(cols) >= MinCols THEN FindLink(doc, cols[5]) ELSE NoTag

\* a row with fewer than five cells or without a link is passed over
RowSkipped ==
    /\ pc = "row"
    /\ rowIdx <= Len(rows)
    /\ DetailsLink(listing, rows[rowIdx]) = NoTag
    /\ rowIdx' = rowIdx + 1
    /\ UNCHANGED <<entry, pc, driverVars, url, listing, rows, jobs, detailVars, netVars>>

\* a row with a link: job_details = fetch_job_details(details_url)
RowDetails ==
    /\ pc = "row"
    /\ rowIdx <= Len(rows)
    /\ LET link == DetailsLink(listing, rows[rowIdx])
       IN  /\ link /= NoTag
           /\ details_url' = ResolveUrl(NodeAt(listing, link).href)
    /\ pc' = "d_start"
    /\ UNCHANGED <<entry, driverVars, pageVars, soup, details_container, cidx, data, raised,
                   netVars>>

\* the record appended, the sleep only taken when the details were fetched without error
RowMergedSleepOnSuccess ==
    /\ pc = "merge"
    /\ jobs' = Append(jobs, JobData(listing, Cols(listing, rows[rowIdx]), details_url, data))
    /\ pc' = IF raised THEN "row" ELSE "sleep"
    /\ rowIdx' = IF raised THEN rowIdx + 1 ELSE rowIdx
    /\ UNCHANGED <<entry, driverVars, url, listing, rows, detailVars, netVars>>

\* jobs.append(job_data)
RowMerged ==
    /\ pc = "merge"
    /\ jobs' = Append(jobs, JobData(listing, Cols(listing, rows[rowIdx]), details_url, data))
    /\ pc' = "sleep"
    /\ UNCHANGED <<entry, driverVars, url, listing, rows, rowIdx, detailVars, netVars>>

\* time.sleep(1), then the next row; the locals of this iteration are dead
Sleep ==
    /\ pc = "sleep"
    /\ sleptSince' = TRUE
    /\ rowIdx' = rowIdx + 1
    /\ details_url' = <<>>
    /\ data' = InitialData
    /\ raised' = FALSE
    /\ pc' = "row"
    /\ UNCHANGED <<entry, driverVars, url, listing, rows, jobs, soup, details_container, cidx,
                   inflight, requested, pageResults, detailFetches>>

\* the rows are exhausted: return jobs
RowsDone ==
    /\ pc = "row"
    /\ rowIdx > Len(rows)
    /\ pc' = "page_done"
    /\ UNCHANGED <<entry, driverVars, pageVars, detailVars, netVars>>

(***************************************************************************)
(* fetch_job_details                                                       *)
(***************************************************************************)

\* the positions inside the try block after the response has arrived
ParsePcs == {"d_container", "d_title", "d_dl", "d_table", "d_skills", "d_desc"}

\* data = {...}; if not details_url: return data
DetailsStart ==
    /\ pc = "d_start"
    /\ data' = InitialData
    /\ raised' = FALSE
    /\ pc' = IF details_url = <<>> THEN "d_return" ELSE "d_get"
    /\ UNCHANGED <<entry, driverVars, pageVars, details_url, soup, details_container, cidx,
                   netVars>>

\* requests.get(details_url, ...) is sent
DetailRequest ==
    /\ pc = "d_get"
    /\ inflight' = inflight + 1
    /\ detailFetches' = detailFetches + 1
    /\ sleptSince' = FALSE
    /\ pc' = "d_wait"
    /\ UNCHANGED <<entry, driverVars, pageVars, detailVars, requested, pageResults>>

\* except Exception as e: print(...) -- the data built so far is what is returned
OnException(d) == d

\* the request fails or raise_for_status raises: the except clause, then return data
DetailFailed ==
    /\ pc = "d_wait"
    /\ HttpError \in DetailResponses(entry, details_url)
    /\ inflight' = inflight - 1
    /\ raised' = TRUE
    /\ data' = OnException(data)
    /\ pc' = "d_return"
    /\ UNCHANGED <<entry, driverVars, pageVars, details_url, soup, details_container, cidx,
                   requested, pageResults, detailFetches, sleptSince>>

\* the page arrives: soup = BeautifulSoup(response.text, 'html.parser')
DetailFetched ==
    /\ pc = "d_wait"
    /\ \E r \in DetailResponses(entry, details_url) :
          /\ r.status = "ok"
          /\ soup' = r.doc
    /\ inflight' = inflight - 1
    /\ pc' = "d_container"
    /\ UNCHANGED <<entry, driverVars, pageVars, details_url, details_container, cidx, data,
                   raised, requested, pageResults, detailFetches, sleptSince>>

\* details_container = ...; if not details_container: return data
ContainerStep ==
    /\ pc = "d_container"
    /\ details_container' = FindDetailsContainer(soup)
    /\ pc' = IF details_container' = NoTag THEN "d_return" ELSE "d_title"
    /\ UNCHANGED <<entry, driverVars, pageVars, details_url, soup, cidx, data, raised, netVars>>

\* the job title
TitleStep ==
    /\ pc = "d_title"
    /\ data' = TitleStage(soup, details_container, data)
    /\ cidx' = 1
    /\ pc' = "d_dl"
    /\ UNCHANGED <<entry, driverVars, pageVars, details_url, soup, details_container, raised,
                   netVars>>

\* the container of this round of `for container in [details_container, soup]`
Container == IF cidx = 1 THEN details_container ELSE <<>>

\* the definition lists of the container
DlScan ==
    /\ pc = "d_dl"
    /\ data' = DlStage(soup, Container, data)
    /\ pc' = "d_table"
    /\ UNCHANGED <<entry, driverVars, pageVars, details_url, soup, details_container, cidx,
                   raised, netVars>>

\* the tables of the container
TableScan ==
    /\ pc = "d_table"
    /\ data' = TableStage(soup, Container, data)
    /\ pc' = "d_skills"
    /\ UNCHANGED <<entry, driverVars, pageVars, details_url, soup, details_container, cidx,
                   raised, netVars>>

\* the skills section of the container, then the next container or the description
SkillsScan ==
    /\ pc = "d_skills"
    /\ data' = SkillsStage(soup, Container, data)
    /\ IF cidx = 1
       THEN cidx' = 2 /\ pc' = "d_dl"
       ELSE cidx' = cidx /\ pc' = "d_desc"
    /\ UNCHANGED <<entry, driverVars, pageVars, details_url, soup, details_container, raised,
                   netVars>>

\* the job description and its summary
DescStep ==
    /\ pc = "d_desc"
    /\ data' = DescStage(soup, details_container, data)
    /\ pc' = "d_return"
    /\ UNCHANGED <<entry, driverVars, pageVars, details_url, soup, details_container, cidx,
                   raised, netVars>>

\* an exception while parsing: the except clause, then return data
ParseException ==
    /\ pc \in ParsePcs
    /\ raised' = TRUE
    /\ data' = OnException(data)
    /\ pc' = "d_return"
    /\ UNCHANGED <<entry, driverVars, pageVars, details_url, soup, details_container, cidx,
                   netVars>>

\* return data: to the caller's merge, or the end of the call
DetailsReturn ==
    /\ pc = "d_return"
    /\ pc' = IF entry = "fetch_job_details" THEN "done" ELSE "merge"
    /\ soup' = IF entry = "fetch_job_details" THEN soup ELSE EmptySoup
    /\ details_container' = IF entry = "fetch_job_details" THEN details_container ELSE NoTag
    /\ cidx' = IF entry = "fetch_job_details" THEN cidx ELSE 1
    /\ UNCHANGED <<entry, driverVars, pageVars, details_url, data, raised, netVars>>

Next ==
    \/ NextPage
    \/ PagesExhausted
    \/ PageReturned
    \/ ListRequest
    \/ ListFailed
    \/ ListFetched
    \/ ListParse
    \/ RowSkipped
    \/ RowDetails
    \/ RowMerged
    \/ Sleep
    \/ RowsDone
    \/ DetailsStart
    \/ DetailRequest
    \/ DetailFailed
    \/ DetailFetched
    \/ ContainerStep
    \/ TitleStep
    \/ DlScan
    \/ TableScan
    \/ SkillsScan
    \/ DescStep
    \/ ParseException
    \/ DetailsReturn

Spec == Init /\ [][Next]_vars

(***************************************************************************)
(* Properties                                                              *)
(***************************************************************************)

\* fetch_job_details is about to return, or has returned, data
Returning ==
    \/ pc \in {"d_return", "merge", "sleep"}
    \/ pc = "done" /\ entry = "fetch_job_details"

\* the stages all ran: the page arrived, a container was found, nothing was raised
Completed == pc = "d_return" /\ ~raised /\ details_container /= NoTag

KeysOf(f) ==
    CASE f = "Location" -> LocationKeys
      [] f = "ExperienceRequired" -> ExperienceKeys
      [] f = "SkillsRequired" -> SkillsKeys
      [] f = "Salary" -> SalaryKeys

\* the label/value pairs of the table rows below c, in document order
RowPairs(doc, c) ==
    LET rs == SelectSeq(NestedFindAll(doc, c, {"table"}, {"tr"}),
                        LAMBDA r : Len(FindAll(doc, r, {"th", "td"})) >= 2)
    IN  [i \in 1..Len(rs) |->
            [label |-> Lower(GetTextStrip(doc, FindAll(doc, rs[i], {"th", "td"})[1])),
             value |-> GetTextStrip(doc, FindAll(doc, rs[i], {"th", "td"})[2])]]

\* the label/value pairs of the dt/dd below c, in document order
DlPairs(doc, c) ==
    LET ds == SelectSeq(NestedFindAll(doc, c, {"dl"}, {"dt"}),
                        LAMBDA d : FindNextSibling(doc, d, "dd") /= NoTag)
    IN  [i \in 1..Len(ds) |->
            [label |-> Lower(GetTextStrip(doc, ds[i])),
             value |-> GetTextStrip(doc, FindNextSibling(doc, ds[i], "dd"))]]

\* the pairs whose label contains a keyword of field f
Matching(pairs, f) == SelectSeq(pairs, LAMBDA q : AnyKeyIn(KeysOf(f), q.label))

\* of these, the pairs with a non-empty value
Valued(pairs) == SelectSeq(pairs, LAMBDA q : q.value /= <<>>)

\* C1: on every exit path of fetch_job_details the returned mapping has exactly
\* the six configured field keys, no key missing and none added.
C1_Totality == Returning => DOMAIN data = Fields

\* normal completion with the skills taken from the skills section and a summary
C1_Witness ==
    /\ Completed
    /\ SkillsStage(soup, <<>>, InitialData) /= InitialData
    /\ data["JobDescriptionSummary"] /= NotAvailable

\* C2: a fetched document with a single table row or dt/dd pair whose label
\* contains a keyword of a field and whose value is non-empty yields that value
\* for the field, whatever else the document holds, a details container or not.
C2_SinglePairExtracted ==
    (pc = "d_return" /\ ~raised /\ details_url /= <<>>) =>
        \A f \in {"Location", "ExperienceRequired", "SkillsRequired", "Salary"} :
            LET m == Matching(RowPairs(soup, <<>>) \o DlPairs(soup, <<>>), f)
            IN  (Len(m) = 1 /\ m[1].value /= <<>>) =>
                    data[f] = IF f = "SkillsRequired" THEN NormalizeSkills(m[1].value)
                              ELSE m[1].value

\* C3: first match wins: when every pair matching a field has a value, the
\* first table row in scan order (the container, then the whole document) that
\* matches the field gives its value; a definition-list pair only counts when
\* no row matches, and then it is the first pair in scan order.
C3_FirstMatchWins ==
    Completed =>
        \A f \in {"Location", "ExperienceRequired", "Salary"} :
            LET rowsM == Matching(RowPairs(soup, details_container)
                                  \o RowPairs(soup, <<>>), f)
                dlM   == Matching(DlPairs(soup, details_container)
                                  \o DlPairs(soup, <<>>), f)
            IN  (Valued(rowsM) = rowsM /\ Valued(dlM) = dlM) =>
                    /\ rowsM /= <<>> => data[f] = rowsM[1].value
                    /\ (rowsM = <<>> /\ dlM /= <<>>) => data[f] = dlM[1].value

\* a scan step that leaves no field empty that was not empty before
ScanKeepsValues ==
    pc \in {"d_dl", "d_table"} =>
        \A f \in Fields : (data'[f] = <<>>) => (data[f] = <<>>)

\* C4: a scan of definition lists or tables never makes a field the empty
\* string: an empty value neither sets a field nor replaces a value found before.
C4_EmptyRejected == [][ScanKeepsValues]_vars

\* C5: whenever an exception was raised during the fetch or the parsing, the
\* mapping returned is the all-sentinel one.
C5_AllSentinelOnException == (pc = "d_return" /\ raised) => data = InitialData

ClaimPageUrls ==
    <<BASE_URL, BASE_URL \o <<"?","p","a","g","e","=","2">>,
      BASE_URL \o <<"?","p","a","g","e","=","3">>>>

\* pages are requested in the order 1, 2, 3 at their URLs, none after a page
\* that returned nothing, and the result is the pages' records in page order
PaginationOrder ==
    /\ Len(requested) <= Len(ClaimPageUrls)
    /\ \A i \in 1..Len(requested) : requested[i] = ClaimPageUrls[i]
    /\ Len(pageResults) <= Len(requested)
    /\ Len(requested) <= Len(pageResults) + 1
    /\ \A i \in 1..(Len(pageResults) - 1) : pageResults[i] /= <<>>
    /\ (\E i \in 1..Len(pageResults) : pageResults[i] = <<>>)
          => Len(requested) = Len(pageResults)
    /\ all_jobs = Concat(pageResults)

\* C6 as stated: pages are requested in order for as long as every page so far
\* returned records, so the run only ends after a page that returned none.
C6_StopsOnlyOnEmpty ==
    entry = "scrape_all_jobs" =>
        /\ PaginationOrder
        /\ pc = "done" => (pageResults /= <<>> /\ pageResults[Len(pageResults)] = <<>>)

\* C6: pages are requested in the order 1, 2, 3, ..., never after an empty page
\* and never more than max_pages of them; the run ends after the first empty
\* page or after page max_pages, and the result is the concatenation in page
\* order of the records of the pages requested.
C6_Pagination ==
    entry = "scrape_all_jobs" =>
        /\ PaginationOrder
        /\ Len(requested) <= max_pages
        /\ pc = "done" =>
              /\ pageResults /= <<>>
              /\ \/ pageResults[Len(pageResults)] = <<>>
                 \/ Len(pageResults) = max_pages

\* the run ended because max_pages pages were read, each with records
C6_Witness ==
    /\ entry = "scrape_all_jobs"
    /\ pc = "done"
    /\ Len(pageResults) = max_pages
    /\ pageResults[max_pages] /= <<>>
    /\ Len(all_jobs) > max_pages

\* the description the summary is made from, once the stages have run
FoundDescription ==
    LET sec == FindDescSection(soup, details_container)
    IN  IF sec = NoTag THEN <<>> ELSE DescriptionOf(soup, sec)

\* the position (from 1) of the last c among the first 300 characters, 0 if none
LastWithinCap(d, c) ==
    LET at == {i \in 1..Len(d) : i <= 300 /\ d[i] = c}
    IN  IF at = {} THEN 0 ELSE CHOOSE i \in at : \A j \in at : j <= i

\* the summary of description d; the space at which it is cut is kept or dropped
ClaimedSummary(d, keepSpace) ==
    IF Len(d) <= 300 THEN d
    ELSE IF LastWithinCap(d, ".") > 0
         THEN SubSeq(d, 1, LastWithinCap(d, ".")) \o <<".", ".", ".">>
    ELSE IF LastWithinCap(d, " ") > 0
         THEN SubSeq(d, 1, LastWithinCap(d, " ") - (IF keepSpace THEN 0 ELSE 1))
              \o <<".", ".", ".">>
    ELSE SubSeq(d, 1, 300) \o <<".", ".", ".">>

\* a description of 450 characters whose last period within the cap is at
\* (0-based) position 210 gives a summary of 214 characters
Example450(d, summary) ==
    (Len(d) = 450 /\ LastWithinCap(d, ".") = 211) => Len(summary) = 214

\* C7 as stated: a description longer than 300 characters is cut after the last
\* period within the first 300, else before the last space within them, else at
\* 300, and '...' is appended; a shorter one is returned unchanged.
C7_CutBeforeSpace ==
    (Completed /\ FoundDescription /= <<>>) =>
        /\ data["JobDescriptionSummary"] = ClaimedSummary(FoundDescription, FALSE)
        /\ Example450(FoundDescription, data["JobDescriptionSummary"])

\* C7: a description longer than 300 characters is cut after the last period
\* within the first 300, else after the last space within them (the space is
\* kept), else at 300, and '...' is appended; a shorter one is returned unchanged.
C7_Truncation ==
    (Completed /\ FoundDescription /= <<>>) =>
        /\ data["JobDescriptionSummary"] = ClaimedSummary(FoundDescription, TRUE)
        /\ Example450(FoundDescription, data["JobDescriptionSummary"])

\* a long description without a period in the first 300 characters, cut at a space
C7_Witness ==
    /\ Completed
    /\ Len(FoundDescription) > 300
    /\ LastWithinCap(FoundDescription, ".") = 0
    /\ LastWithinCap(FoundDescription, " ") > 0
    /\ data["JobDescriptionSummary"] /= NotAvailable

\* C8: whenever SkillsRequired was set from the document, it is a list of
\* items joined by ', ' in which no item is empty, has whitespace around it or
\* contains a bullet separator.
C8_SkillsNormalized ==
    (pc = "d_return" /\ data["SkillsRequired"] /= NotAvailable
                     /\ data["SkillsRequired"] /= <<>>) =>
        LET items == SplitOn(data["SkillsRequired"], ",")
        IN  \A i \in 1..Len(items) :
               /\ Strip(items[i]) /= <<>>
               /\ items[i] = IF i = 1 THEN Strip(items[i]) ELSE <<" ">> \o Strip(items[i])
               /\ \A k \in 1..Len(items[i]) : items[i][k] \notin {BULLET, MIDDOT}

\* C9: in the record built from a listing row and the details, every field the
\* detail page resolved (title, location, experience, skills, salary) carries
\* the detail page's value.
C9_DetailsTakePrecedence ==
    pc = "sleep" =>
        \A f \in {"JobTitle", "Location", "ExperienceRequired", "SkillsRequired", "Salary"} :
            data[f] /= InitialData[f] => jobs[Len(jobs)][f] = data[f]

\* C10: at most one HTTP request is in flight at any time, and when a detail
\* request is about to be sent after an earlier one, time.sleep(1) has run
\* since that earlier request.
C10_PolitenessDelay ==
    /\ inflight <= 1
    /\ inflight = 1 <=> pc \in {"list_wait", "d_wait"}
    /\ (pc = "d_get" /\ detailFetches > 0) => sleptSince

\* the first detail request of page 2 is about to be sent, after the failed
\* fetch of the last row of page 1
C10_Witness ==
    /\ pc = "d_get"
    /\ page = 2
    /\ rowIdx = 1
    /\ detailFetches > 0
    /\ all_jobs[Len(all_jobs)].Location = <<>>
    /\ all_jobs[Len(all_jobs)].JobURL /= SiteJobUrl

====
